---- MODULE Spec2Model ----
(***************************************************************************)
(* A model of the chess engine of chess.py: the Board (grid of pieces,     *)
(* last_move), the per-piece move generators, the attack detector, the     *)
(* simulate-then-revert legality filter, the move executor, and the Game   *)
(* click handler with its turn/status bookkeeping.                         *)
(*                                                                         *)
(* Squares are <<row, col>> with row 0 black's home rank and row 7 white's.*)
(* A piece object is a record; the record stored in a grid cell carries    *)
(* the object's own `position` and `has_moved` fields, which the code      *)
(* updates separately from the cell that holds the object.                 *)
(* Move lists are modelled as sets: the code only tests membership and     *)
(* emptiness of them.                                                      *)
(***************************************************************************)
EXTENDS Integers, Sequences, FiniteSets, TLC

VARIABLES grid, last_move, selected_piece, valid_moves, current_turn,
          game_over, winner, events, free, relocated, error, stack

vars == <<grid, last_move, selected_piece, valid_moves, current_turn,
          game_over, winner, events, free, relocated, error, stack>>

\* ------------------------------------------------------------ constants
WINDOW_SIZE == 800
BOARD_SIZE == 8
SQUARE_SIZE == WINDOW_SIZE \div BOARD_SIZE

\* Number of clicks the user may make freely once the queued clicks are used.
MaxFree == 1

Idx == 0 .. (BOARD_SIZE - 1)

\* ------------------------------------------------------------ pieces
\* Python's None for a grid cell.
None == [id |-> 0, kind |-> "None", color |-> "none",
         position |-> <<0, 0>>, has_moved |-> FALSE]

\* Python's None for last_move / selected_piece.
NoneT == <<>>

NewPiece(id, kind, color, position) ==
    [id |-> id, kind |-> kind, color |-> color,
     position |-> position, has_moved |-> FALSE]

Opponent(color) == IF color = "white" THEN "black" ELSE "white"

is_valid_position(row, col) ==
    /\ 0 <= row /\ row < BOARD_SIZE
    /\ 0 <= col /\ col < BOARD_SIZE

Abs(x) == IF x < 0 THEN -x ELSE x

\* Object identities of the 32 initial pieces: one per initial square.
InitId(row, col) == row * BOARD_SIZE + col + 1

BackRank(col) ==
    CASE col \in {0, 7} -> "Rook"
      [] col \in {1, 6} -> "Knight"
      [] col \in {2, 5} -> "Bishop"
      [] col = 3 -> "Queen"
      [] OTHER -> "King"

setup_pieces ==
    [row \in Idx |-> [col \in Idx |->
        CASE row = 1 -> NewPiece(InitId(row, col), "Pawn", "black", <<row, col>>)
          [] row = 6 -> NewPiece(InitId(row, col), "Pawn", "white", <<row, col>>)
          [] row = 0 -> NewPiece(InitId(row, col), BackRank(col), "black", <<row, col>>)
          [] row = 7 -> NewPiece(InitId(row, col), BackRank(col), "white", <<row, col>>)
          [] OTHER -> None]]

\* Python's list indexing: an index from -len to -1 counts from the end.
Ix(i) == IF i < 0 THEN i + BOARD_SIZE ELSE i

\* An index a list of BOARD_SIZE items accepts; any other raises IndexError.
IndexOk(i) == -BOARD_SIZE <= i /\ i < BOARD_SIZE

get_piece(g, row, col) == g[Ix(row)][Ix(col)]

\* ------------------------------------------------------------ move generators
\* Faulty variant: the test that the two pawns stand on the same row is lost.
get_en_passant_moves_AnyRow(lm, pawn) ==
    IF lm = NoneT THEN {}
    ELSE LET last_from == lm[1]
             last_to == lm[2]
             last_piece == lm[3]
             row == pawn.position[1]
             col == pawn.position[2]
             direction == IF pawn.color = "white" THEN -1 ELSE 1
         IN IF last_piece.kind # "Pawn" THEN {}
            ELSE IF Abs(last_from[1] - last_to[1]) # 2 THEN {}
            ELSE IF Abs(col - last_to[2]) # 1 THEN {}
            ELSE IF pawn.color = last_piece.color THEN {}
            ELSE {<<row + direction, last_to[2]>>}

get_en_passant_moves(lm, pawn) ==
    IF lm = NoneT THEN {}
    ELSE LET last_from == lm[1]
             last_to == lm[2]
             last_piece == lm[3]
             row == pawn.position[1]
             col == pawn.position[2]
             direction == IF pawn.color = "white" THEN -1 ELSE 1
         IN IF last_piece.kind # "Pawn" THEN {}
            ELSE IF Abs(last_from[1] - last_to[1]) # 2 THEN {}
            ELSE IF row # last_to[1] \/ Abs(col - last_to[2]) # 1 THEN {}
            ELSE IF pawn.color = last_piece.color THEN {}
            ELSE {<<row + direction, last_to[2]>>}

PawnMoves(g, lm, p) ==
    LET row == p.position[1]
        col == p.position[2]
        direction == IF p.color = "white" THEN -1 ELSE 1
        new_row == row + direction
        forward ==
            IF is_valid_position(new_row, col) /\ get_piece(g, new_row, col) = None
            THEN {<<new_row, col>>} \cup
                 (IF ~p.has_moved /\ get_piece(g, row + 2 * direction, col) = None
                  THEN {<<row + 2 * direction, col>>} ELSE {})
            ELSE {}
        captures ==
            {<<new_row, col + dc>> : dc \in
                {d \in {-1, 1} :
                    /\ is_valid_position(new_row, col + d)
                    /\ get_piece(g, new_row, col + d) # None
                    /\ get_piece(g, new_row, col + d).color # p.color}}
    IN forward \cup captures \cup get_en_passant_moves(lm, p)

\* Faulty variant: the ray goes on behind the first opposing piece.
RECURSIVE Slide_JumpsOverCaptures(_, _, _, _, _, _, _)
Slide_JumpsOverCaptures(g, color, row, col, dr, dc, i) ==
    LET new_row == row + dr * i
        new_col == col + dc * i
    IN IF i >= BOARD_SIZE \/ ~is_valid_position(new_row, new_col) THEN {}
       ELSE IF get_piece(g, new_row, new_col) = None
                 \/ get_piece(g, new_row, new_col).color # color
            THEN {<<new_row, new_col>>}
                 \cup Slide_JumpsOverCaptures(g, color, row, col, dr, dc, i + 1)
            ELSE {}

\* One direction of a sliding piece, from step i outwards.
RECURSIVE Slide(_, _, _, _, _, _, _)
Slide(g, color, row, col, dr, dc, i) ==
    LET new_row == row + dr * i
        new_col == col + dc * i
    IN IF i >= BOARD_SIZE \/ ~is_valid_position(new_row, new_col) THEN {}
       ELSE IF get_piece(g, new_row, new_col) = None
            THEN {<<new_row, new_col>>} \cup Slide(g, color, row, col, dr, dc, i + 1)
            ELSE IF get_piece(g, new_row, new_col).color # color
                 THEN {<<new_row, new_col>>} ELSE {}

RookDirections == {<<-1, 0>>, <<1, 0>>, <<0, -1>>, <<0, 1>>}
BishopDirections == {<<-1, -1>>, <<-1, 1>>, <<1, -1>>, <<1, 1>>}

SlidingMoves(g, p, directions) ==
    UNION {Slide(g, p.color, p.position[1], p.position[2], d[1], d[2], 1) :
           d \in directions}

RookMoves(g, p) == SlidingMoves(g, p, RookDirections)
BishopMoves(g, p) == SlidingMoves(g, p, BishopDirections)
QueenMoves(g, p) == SlidingMoves(g, p, RookDirections \cup BishopDirections)

\* Faulty variant: one of the eight jumps is missing from the list.
KnightOffsets_SevenJumps ==
    {<<-2, -1>>, <<-1, -2>>, <<-1, 2>>, <<1, -2>>, <<1, 2>>, <<2, -1>>, <<2, 1>>}

KnightOffsets == {<<-2, -1>>, <<-2, 1>>, <<-1, -2>>, <<-1, 2>>,
                  <<1, -2>>, <<1, 2>>, <<2, -1>>, <<2, 1>>}
KingOffsets == {<<-1, -1>>, <<-1, 0>>, <<-1, 1>>, <<0, -1>>,
                <<0, 1>>, <<1, -1>>, <<1, 0>>, <<1, 1>>}

\* Knight and the king's one-square steps share the occupancy rule.
StepMoves(g, p, offsets) ==
    {<<p.position[1] + d[1], p.position[2] + d[2]>> : d \in
        {o \in offsets :
            /\ is_valid_position(p.position[1] + o[1], p.position[2] + o[2])
            /\ \/ get_piece(g, p.position[1] + o[1], p.position[2] + o[2]) = None
               \/ get_piece(g, p.position[1] + o[1], p.position[2] + o[2]).color # p.color}}

KnightMoves(g, p) == StepMoves(g, p, KnightOffsets)

\* get_possible_moves of every class but King (none of them consults the
\* attack detector).
NonKingMoves(g, lm, p) ==
    CASE p.kind = "Pawn" -> PawnMoves(g, lm, p)
      [] p.kind = "Rook" -> RookMoves(g, p)
      [] p.kind = "Knight" -> KnightMoves(g, p)
      [] p.kind = "Bishop" -> BishopMoves(g, p)
      [] p.kind = "Queen" -> QueenMoves(g, p)
      [] OTHER -> {}

\* ------------------------------------------------------------ attack detector
is_position_under_attack(g, lm, row, col, color) ==
    \E r \in Idx : \E c \in Idx :
        LET piece == g[r][c]
        IN /\ piece # None
           /\ piece.color = Opponent(color)
           /\ IF piece.kind = "King"
              THEN <<row, col>> \in {<<r + d[1], c + d[2]>> : d \in KingOffsets}
              ELSE <<row, col>> \in NonKingMoves(g, lm, piece)

\* The two sides of get_castling_moves, for a king whose has_moved is False.
castling_sides(g, lm, king) ==
    LET row == king.position[1]
        col == king.position[2]
        rook_kingside == g[row][7]
        rook_queenside == g[row][0]
        kingside ==
            IF /\ rook_kingside.kind = "Rook" /\ ~rook_kingside.has_moved
               /\ g[row][5] = None /\ g[row][6] = None
               /\ ~is_position_under_attack(g, lm, row, col, king.color)
               /\ ~is_position_under_attack(g, lm, row, 5, king.color)
               /\ ~is_position_under_attack(g, lm, row, 6, king.color)
            THEN {<<row, 6>>} ELSE {}
        queenside ==
            IF /\ rook_queenside.kind = "Rook" /\ ~rook_queenside.has_moved
               /\ g[row][1] = None /\ g[row][2] = None /\ g[row][3] = None
               /\ ~is_position_under_attack(g, lm, row, col, king.color)
               /\ ~is_position_under_attack(g, lm, row, 3, king.color)
               /\ ~is_position_under_attack(g, lm, row, 2, king.color)
            THEN {<<row, 2>>} ELSE {}
    IN kingside \cup queenside

\* Faulty variant: the king's has_moved is not consulted.
get_castling_moves_IgnoresKingMoved(g, lm, king) == castling_sides(g, lm, king)

get_castling_moves(g, lm, king) ==
    IF king.has_moved THEN {} ELSE castling_sides(g, lm, king)

KingMoves(g, lm, p) ==
    StepMoves(g, p, KingOffsets) \cup get_castling_moves(g, lm, p)

\* Dynamic dispatch of piece.get_possible_moves(board).
get_possible_moves(g, lm, p) ==
    IF p.kind = "King" THEN KingMoves(g, lm, p) ELSE NonKingMoves(g, lm, p)

\* Faulty variant: no king is ever reported in check.
is_in_check_NeverInCheck(g, lm, color) == FALSE

\* Row-major scan for the first king of the colour.
is_in_check(g, lm, color) ==
    LET kings == {s \in Idx \X Idx :
                    g[s[1]][s[2]].kind = "King" /\ g[s[1]][s[2]].color = color}
    IN IF kings = {} THEN FALSE
       ELSE LET king_pos == CHOOSE s \in kings : \A t \in kings :
                                s[1] * BOARD_SIZE + s[2] <= t[1] * BOARD_SIZE + t[2]
            IN is_position_under_attack(g, lm, king_pos[1], king_pos[2], color)

\* ------------------------------------------------------------ legality filter
\* Faulty variant of the undo half: the mover's position field keeps the
\* trial destination.
UndoMove_KeepsTrialPosition(gs, from_pos, to_pos, captured_piece, original_pos, en_passant_captured) ==
    LET piece == gs[to_pos[1]][to_pos[2]]
        g1 == [gs EXCEPT ![Ix(from_pos[1])][Ix(from_pos[2])] = piece]
        g2 == [g1 EXCEPT ![to_pos[1]][to_pos[2]] = captured_piece]
    IN IF en_passant_captured # None
       THEN [g2 EXCEPT ![Ix(from_pos[1])][to_pos[2]] = en_passant_captured]
       ELSE g2

\* Faulty variant of the undo half: the destination's former occupant is not
\* put back.
UndoMove_DropsCaptured(gs, from_pos, to_pos, captured_piece, original_pos, en_passant_captured) ==
    LET piece == gs[to_pos[1]][to_pos[2]]
        g1 == [gs EXCEPT ![Ix(from_pos[1])][Ix(from_pos[2])] = piece]
        g2 == [g1 EXCEPT ![to_pos[1]][to_pos[2]] = None]
        g3 == [g2 EXCEPT ![Ix(from_pos[1])][Ix(from_pos[2])].position = original_pos]
    IN IF en_passant_captured # None
       THEN [g3 EXCEPT ![Ix(from_pos[1])][to_pos[2]] = en_passant_captured]
       ELSE g3

\* Faulty variant of the undo half: a lifted en passant victim is not put back.
UndoMove_ForgetsEnPassant(gs, from_pos, to_pos, captured_piece, original_pos, en_passant_captured) ==
    LET piece == gs[to_pos[1]][to_pos[2]]
        g1 == [gs EXCEPT ![Ix(from_pos[1])][Ix(from_pos[2])] = piece]
        g2 == [g1 EXCEPT ![to_pos[1]][to_pos[2]] = captured_piece]
    IN [g2 EXCEPT ![Ix(from_pos[1])][Ix(from_pos[2])].position = original_pos]

\* The undo half of is_move_legal: put the mover back, put the destination's
\* former occupant back, restore the mover's position field, and put an en
\* passant victim back if one was lifted.
UndoMove(gs, from_pos, to_pos, captured_piece, original_pos, en_passant_captured) ==
    LET piece == gs[to_pos[1]][to_pos[2]]
        g1 == [gs EXCEPT ![Ix(from_pos[1])][Ix(from_pos[2])] = piece]
        g2 == [g1 EXCEPT ![to_pos[1]][to_pos[2]] = captured_piece]
        g3 == [g2 EXCEPT ![Ix(from_pos[1])][Ix(from_pos[2])].position = original_pos]
    IN IF en_passant_captured # None
       THEN [g3 EXCEPT ![Ix(from_pos[1])][to_pos[2]] = en_passant_captured]
       ELSE g3

\* Faulty variant of the simulate half: the trial marks the mover as moved,
\* as move_piece would, and the undo half knows nothing of it.
SimulateMove_MarksMoved(g, from_pos, to_pos) ==
    LET piece == g[Ix(from_pos[1])][Ix(from_pos[2])]
        captured_piece == g[to_pos[1]][to_pos[2]]
        g1 == IF piece.kind = "Pawn" /\ to_pos[2] # from_pos[2] /\ captured_piece = None
              THEN [g EXCEPT ![Ix(from_pos[1])][to_pos[2]] = None]
              ELSE g
        g2 == [g1 EXCEPT ![to_pos[1]][to_pos[2]] =
                  [piece EXCEPT !.position = to_pos, !.has_moved = TRUE]]
    IN [g2 EXCEPT ![Ix(from_pos[1])][Ix(from_pos[2])] = None]

\* The simulate half of is_move_legal: the grid while the trial move stands.
SimulateMove(g, from_pos, to_pos) ==
    LET piece == g[Ix(from_pos[1])][Ix(from_pos[2])]
        captured_piece == g[to_pos[1]][to_pos[2]]
        g1 == IF piece.kind = "Pawn" /\ to_pos[2] # from_pos[2] /\ captured_piece = None
              THEN [g EXCEPT ![Ix(from_pos[1])][to_pos[2]] = None]
              ELSE g
        g2 == [g1 EXCEPT ![to_pos[1]][to_pos[2]] = [piece EXCEPT !.position = to_pos]]
    IN [g2 EXCEPT ![Ix(from_pos[1])][Ix(from_pos[2])] = None]

\* The grid is_move_legal leaves behind: the trial move made and undone.
is_move_legal_grid(g, from_pos, to_pos) ==
    LET piece == g[Ix(from_pos[1])][Ix(from_pos[2])]
        captured_piece == g[to_pos[1]][to_pos[2]]
        original_pos == piece.position
        en_passant_captured ==
            IF piece.kind = "Pawn" /\ to_pos[2] # from_pos[2] /\ captured_piece = None
            THEN g[Ix(from_pos[1])][to_pos[2]]
            ELSE None
    IN UndoMove(SimulateMove(g, from_pos, to_pos), from_pos, to_pos,
                captured_piece, original_pos, en_passant_captured)

\* Faulty variant: the trial move is made and undone, its check test is not.
is_move_legal_AlwaysLegal(g, lm, from_pos, to_pos) ==
    [legal |-> TRUE, grid |-> is_move_legal_grid(g, from_pos, to_pos)]

\* is_move_legal: its return value and the grid it leaves behind.
is_move_legal(g, lm, from_pos, to_pos) ==
    [legal |-> ~is_in_check(SimulateMove(g, from_pos, to_pos), lm,
                            g[Ix(from_pos[1])][Ix(from_pos[2])].color),
     grid |-> is_move_legal_grid(g, from_pos, to_pos)]

\* The filtering loop over one piece's candidate destinations; every
\* is_move_legal call works on the grid the previous call left.
RECURSIVE FilterMoves(_, _, _, _, _)
FilterMoves(g, lm, from_pos, todo, acc) ==
    IF todo = {} THEN [grid |-> g, moves |-> acc]
    ELSE LET move == CHOOSE m \in todo : TRUE
             r == is_move_legal(g, lm, from_pos, move)
         IN IF r.legal
            THEN FilterMoves(r.grid, lm, from_pos, todo \ {move}, acc \cup {move})
            ELSE FilterMoves(r.grid, lm, from_pos, todo \ {move}, acc)

\* The row-major scan of get_all_valid_moves from cell k on.  The dict
\* {position: [moves]} is held as the set of <<position, move>> pairs.
RECURSIVE ScanValidMoves(_, _, _, _, _)
ScanValidMoves(g, lm, color, k, acc) ==
    IF k >= BOARD_SIZE * BOARD_SIZE THEN [grid |-> g, moves |-> acc]
    ELSE LET piece == g[k \div BOARD_SIZE][k % BOARD_SIZE]
         IN IF piece # None /\ piece.color = color
            THEN LET r == FilterMoves(g, lm, piece.position,
                                      get_possible_moves(g, lm, piece), {})
                 IN ScanValidMoves(r.grid, lm, color, k + 1,
                        acc \cup {<<piece.position, m>> : m \in r.moves})
            ELSE ScanValidMoves(g, lm, color, k + 1, acc)

get_all_valid_moves(g, lm, color) == ScanValidMoves(g, lm, color, 0, {})

is_checkmate(g, lm, color) ==
    IF ~is_in_check(g, lm, color) THEN [result |-> FALSE, grid |-> g]
    ELSE LET r == get_all_valid_moves(g, lm, color)
         IN [result |-> (r.moves = {}), grid |-> r.grid]

\* Faulty variant: the side's being in check is not consulted.
is_stalemate_IgnoresCheck(g, lm, color) ==
    LET r == get_all_valid_moves(g, lm, color)
    IN [result |-> (r.moves = {}), grid |-> r.grid]

is_stalemate(g, lm, color) ==
    IF is_in_check(g, lm, color) THEN [result |-> FALSE, grid |-> g]
    ELSE LET r == get_all_valid_moves(g, lm, color)
         IN [result |-> (r.moves = {}), grid |-> r.grid]

\* ------------------------------------------------------------ move executor
\* The castling branch of move_piece: the rook of the king's row goes from
\* its corner to the square the king crossed.
\* Faulty variant: the rook is carried over without its has_moved being set.
CastleRook_ForgetsHasMoved(g, from_pos, to_pos) ==
    LET corner == IF to_pos[2] > from_pos[2] THEN 7 ELSE 0
        target == IF to_pos[2] > from_pos[2] THEN 5 ELSE 3
        rook == g[Ix(from_pos[1])][corner]
        g1 == [g EXCEPT ![Ix(from_pos[1])][corner] = None]
    IN [g1 EXCEPT ![Ix(from_pos[1])][target] =
            [rook EXCEPT !.position = <<from_pos[1], target>>]]

CastleRook(g, from_pos, to_pos) ==
    LET corner == IF to_pos[2] > from_pos[2] THEN 7 ELSE 0
        target == IF to_pos[2] > from_pos[2] THEN 5 ELSE 3
        rook == g[Ix(from_pos[1])][corner]
        g1 == [g EXCEPT ![Ix(from_pos[1])][corner] = None]
    IN [g1 EXCEPT ![Ix(from_pos[1])][target] =
            [rook EXCEPT !.position = <<from_pos[1], target>>, !.has_moved = TRUE]]

\* Faulty variant: the en passant branch is missing, the passed pawn stays.
move_piece_KeepsPassedPawn(g, lm, from_pos, to_pos) ==
    LET piece == g[Ix(from_pos[1])][Ix(from_pos[2])]
    IN IF piece = None
       THEN [ok |-> FALSE, grid |-> g, last_move |-> lm, error |-> "None"]
       ELSE LET g2 == IF piece.kind = "King" /\ Abs(to_pos[2] - from_pos[2]) = 2
                      THEN CastleRook(g, from_pos, to_pos)
                      ELSE g
                g3 == [g2 EXCEPT ![to_pos[1]][to_pos[2]] =
                          [piece EXCEPT !.position = to_pos, !.has_moved = TRUE]]
                g4 == [g3 EXCEPT ![Ix(from_pos[1])][Ix(from_pos[2])] = None]
            IN [ok |-> TRUE, grid |-> g4,
                last_move |-> <<from_pos, to_pos,
                    [id |-> piece.id, kind |-> piece.kind, color |-> piece.color]>>,
                error |-> "None"]

\* Faulty variant: the mover's has_moved is left as it was.
move_piece_ForgetsHasMoved(g, lm, from_pos, to_pos) ==
    LET piece == g[Ix(from_pos[1])][Ix(from_pos[2])]
    IN IF piece = None
       THEN [ok |-> FALSE, grid |-> g, last_move |-> lm, error |-> "None"]
       ELSE LET g1 == IF /\ piece.kind = "Pawn" /\ to_pos[2] # from_pos[2]
                         /\ g[to_pos[1]][to_pos[2]] = None
                      THEN [g EXCEPT ![Ix(from_pos[1])][to_pos[2]] = None]
                      ELSE g
                g2 == IF piece.kind = "King" /\ Abs(to_pos[2] - from_pos[2]) = 2
                      THEN CastleRook(g1, from_pos, to_pos)
                      ELSE g1
                g3 == [g2 EXCEPT ![to_pos[1]][to_pos[2]] =
                          [piece EXCEPT !.position = to_pos]]
                g4 == [g3 EXCEPT ![Ix(from_pos[1])][Ix(from_pos[2])] = None]
            IN [ok |-> TRUE, grid |-> g4,
                last_move |-> <<from_pos, to_pos,
                    [id |-> piece.id, kind |-> piece.kind, color |-> piece.color]>>,
                error |-> "None"]

\* Faulty variant: last_move is written by the first move only.
move_piece_KeepsFirstMove(g, lm, from_pos, to_pos) ==
    LET piece == g[Ix(from_pos[1])][Ix(from_pos[2])]
    IN IF piece = None
       THEN [ok |-> FALSE, grid |-> g, last_move |-> lm, error |-> "None"]
       ELSE LET g1 == IF /\ piece.kind = "Pawn" /\ to_pos[2] # from_pos[2]
                         /\ g[to_pos[1]][to_pos[2]] = None
                      THEN [g EXCEPT ![Ix(from_pos[1])][to_pos[2]] = None]
                      ELSE g
                g2 == IF piece.kind = "King" /\ Abs(to_pos[2] - from_pos[2]) = 2
                      THEN CastleRook(g1, from_pos, to_pos)
                      ELSE g1
                g3 == [g2 EXCEPT ![to_pos[1]][to_pos[2]] =
                          [piece EXCEPT !.position = to_pos, !.has_moved = TRUE]]
                g4 == [g3 EXCEPT ![Ix(from_pos[1])][Ix(from_pos[2])] = None]
            IN [ok |-> TRUE, grid |-> g4,
                last_move |-> IF lm # NoneT THEN lm ELSE <<from_pos, to_pos,
                    [id |-> piece.id, kind |-> piece.kind, color |-> piece.color]>>,
                error |-> "None"]

\* The corner square a castling move of the king takes its rook from.
CastleCorner(from_pos, to_pos) == IF to_pos[2] > from_pos[2] THEN 7 ELSE 0

move_piece(g, lm, from_pos, to_pos) ==
    LET piece == g[Ix(from_pos[1])][Ix(from_pos[2])]
    IN IF piece = None
       THEN [ok |-> FALSE, grid |-> g, last_move |-> lm, error |-> "None"]
       ELSE LET g1 == IF /\ piece.kind = "Pawn" /\ to_pos[2] # from_pos[2]
                         /\ g[to_pos[1]][to_pos[2]] = None
                      THEN [g EXCEPT ![Ix(from_pos[1])][to_pos[2]] = None]
                      ELSE g
                castles == piece.kind = "King" /\ Abs(to_pos[2] - from_pos[2]) = 2
                g2 == IF castles THEN CastleRook(g1, from_pos, to_pos) ELSE g1
                g3 == [g2 EXCEPT ![to_pos[1]][to_pos[2]] =
                          [piece EXCEPT !.position = to_pos, !.has_moved = TRUE]]
                g4 == [g3 EXCEPT ![Ix(from_pos[1])][Ix(from_pos[2])] = None]
            IN IF castles /\ g1[Ix(from_pos[1])][CastleCorner(from_pos, to_pos)] = None
               THEN \* rook is None: rook.position = ... raises after two cells
                    \* were already assigned, and nothing is returned
                    [ok |-> FALSE,
                     grid |-> [g1 EXCEPT ![Ix(from_pos[1])]
                                  [IF to_pos[2] > from_pos[2] THEN 5 ELSE 3] = None],
                     last_move |-> lm, error |-> "AttributeError"]
               ELSE [ok |-> TRUE, grid |-> g4,
                     last_move |-> <<from_pos, to_pos,
                         [id |-> piece.id, kind |-> piece.kind, color |-> piece.color]>>,
                     error |-> "None"]

\* ------------------------------------------------------------ game
\* Object identity of the Queen a promotion creates for the pawn with this id.
PromotedId(pawn_id) == BOARD_SIZE * BOARD_SIZE + pawn_id

\* switch_turn after is_checkmate returned False: the is_stalemate branch.
switch_turn_stalemate(sm, next_turn, over, win) ==
    IF sm.result
    THEN [grid |-> sm.grid, current_turn |-> next_turn, game_over |-> TRUE,
          winner |-> "None"]
    ELSE [grid |-> sm.grid, current_turn |-> next_turn, game_over |-> over,
          winner |-> win]

\* Faulty variant: the mated side is named the winner.
switch_turn_checkmate_WrongWinner(cm, lm, next_turn, over, win) ==
    IF cm.result
    THEN [grid |-> cm.grid, current_turn |-> next_turn, game_over |-> TRUE,
          winner |-> next_turn]
    ELSE switch_turn_stalemate(is_stalemate(cm.grid, lm, next_turn),
                               next_turn, over, win)

\* switch_turn once the turn is flipped and is_checkmate has returned cm.
switch_turn_checkmate(cm, lm, next_turn, over, win) ==
    IF cm.result
    THEN [grid |-> cm.grid, current_turn |-> next_turn, game_over |-> TRUE,
          winner |-> IF next_turn = "white" THEN "black" ELSE "white"]
    ELSE switch_turn_stalemate(is_stalemate(cm.grid, lm, next_turn),
                               next_turn, over, win)

\* Faulty variant: the turn is not handed over.
switch_turn_KeepsTurn(g, lm, turn, over, win) ==
    switch_turn_checkmate(is_checkmate(g, lm, turn), lm, turn, over, win)

switch_turn(g, lm, turn, over, win) ==
    switch_turn_checkmate(
        is_checkmate(g, lm, IF turn = "white" THEN "black" ELSE "white"),
        lm, IF turn = "white" THEN "black" ELSE "white", over, win)

\* Faulty variant: no promotion, the pawn stays a pawn.
make_move_board_NoPromotion(g, lm, from_pos, to_pos) ==
    [grid |-> move_piece(g, lm, from_pos, to_pos).grid,
     last_move |-> move_piece(g, lm, from_pos, to_pos).last_move,
     error |-> move_piece(g, lm, from_pos, to_pos).error]

\* The board work of make_move: move_piece, then the promotion replacement.
make_move_board(g, lm, from_pos, to_pos) ==
    LET piece == get_piece(g, from_pos[1], from_pos[2])
        m == move_piece(g, lm, from_pos, to_pos)
    IN IF /\ piece.kind = "Pawn"
          /\ \/ piece.color = "white" /\ to_pos[1] = 0
             \/ piece.color = "black" /\ to_pos[1] = 7
       THEN [grid |-> [m.grid EXCEPT ![to_pos[1]][to_pos[2]] =
                          NewPiece(PromotedId(piece.id), "Queen", piece.color, to_pos)],
             last_move |-> m.last_move, error |-> m.error]
       ELSE [grid |-> m.grid, last_move |-> m.last_move, error |-> m.error]

\* make_move once the board work is done: switch_turn on the new board.
make_move_switch(b, turn, over, win) ==
    [switch_turn(b.grid, b.last_move, turn, over, win) EXCEPT !.grid = @]
        @@ [last_move |-> b.last_move]

\* An exception of move_piece leaves make_move before switch_turn.
make_move_raised(b, turn, over, win) ==
    [grid |-> b.grid, last_move |-> b.last_move, current_turn |-> turn,
     game_over |-> over, winner |-> win, error |-> b.error]

make_move(g, lm, turn, over, win, from_pos, to_pos) ==
    LET b == make_move_board(g, lm, from_pos, to_pos)
    IN IF b.error # "None"
       THEN make_move_raised(b, turn, over, win)
       ELSE make_move_switch(b, turn, over, win) @@ [error |-> "None"]

\* Faulty variant: the highlight is every generated move, unfiltered.
select_piece_Unfiltered(g, lm, row, col) ==
    [grid |-> g, selected_piece |-> <<row, col>>,
     valid_moves |-> get_possible_moves(g, lm, get_piece(g, row, col))]

select_piece(g, lm, row, col) ==
    LET piece == get_piece(g, row, col)
        r == FilterMoves(g, lm, <<row, col>>, get_possible_moves(g, lm, piece), {})
    IN [grid |-> r.grid, selected_piece |-> <<row, col>>, valid_moves |-> r.moves]

\* Faulty variant: with a piece selected, any clicked square is taken as its
\* destination.
handle_click_MovesAnywhere(pos) ==
    LET col == pos[1] \div SQUARE_SIZE
        row == pos[2] \div SQUARE_SIZE
    IN IF game_over
       THEN UNCHANGED <<grid, last_move, selected_piece, valid_moves,
                        current_turn, game_over, winner, error>>
       ELSE IF selected_piece # NoneT
       THEN \E mv \in {make_move(grid, last_move, current_turn, game_over, winner,
                                 selected_piece, <<row, col>>)} :
                /\ grid' = mv.grid
                /\ last_move' = mv.last_move
                /\ current_turn' = mv.current_turn
                /\ game_over' = mv.game_over
                /\ winner' = mv.winner
                /\ error' = mv.error
                /\ selected_piece' = IF mv.error = "None" THEN NoneT ELSE selected_piece
                /\ valid_moves' = IF mv.error = "None" THEN {} ELSE valid_moves
       ELSE IF get_piece(grid, row, col) # None
               /\ get_piece(grid, row, col).color = current_turn
       THEN \E sel \in {select_piece(grid, last_move, row, col)} :
                /\ grid' = sel.grid
                /\ selected_piece' = sel.selected_piece
                /\ valid_moves' = sel.valid_moves
                /\ UNCHANGED <<last_move, current_turn, game_over, winner, error>>
       ELSE UNCHANGED <<grid, last_move, selected_piece, valid_moves,
                        current_turn, game_over, winner, error>>

\* Faulty variant: clicks are handled after the game has ended.
handle_click_IgnoresGameOver(pos) ==
    LET col == pos[1] \div SQUARE_SIZE
        row == pos[2] \div SQUARE_SIZE
        piece == get_piece(grid, row, col)
    IN IF selected_piece # NoneT /\ <<row, col>> \in valid_moves
       THEN \E mv \in {make_move(grid, last_move, current_turn, game_over, winner,
                                 selected_piece, <<row, col>>)} :
                /\ grid' = mv.grid
                /\ last_move' = mv.last_move
                /\ current_turn' = mv.current_turn
                /\ game_over' = mv.game_over
                /\ winner' = mv.winner
                /\ error' = mv.error
                /\ selected_piece' = IF mv.error = "None" THEN NoneT ELSE selected_piece
                /\ valid_moves' = IF mv.error = "None" THEN {} ELSE valid_moves
       ELSE IF ~IndexOk(row) \/ ~IndexOk(col)
       THEN /\ error' = "IndexError"
            /\ UNCHANGED <<grid, last_move, selected_piece, valid_moves,
                           current_turn, game_over, winner>>
       ELSE IF piece # None /\ piece.color = current_turn
       THEN \E sel \in {select_piece(grid, last_move, row, col)} :
                /\ grid' = sel.grid
                /\ selected_piece' = sel.selected_piece
                /\ valid_moves' = sel.valid_moves
                /\ UNCHANGED <<last_move, current_turn, game_over, winner, error>>
       ELSE IF selected_piece # NoneT
       THEN /\ selected_piece' = NoneT
            /\ valid_moves' = {}
            /\ UNCHANGED <<grid, last_move, current_turn, game_over, winner, error>>
       ELSE UNCHANGED <<grid, last_move, selected_piece, valid_moves,
                        current_turn, game_over, winner, error>>

\* get_piece is the first thing either branch of handle_click does once the
\* clicked square is not a valid move; an index its lists do not accept
\* raises IndexError there, which nothing catches.
handle_click(pos) ==
    LET col == pos[1] \div SQUARE_SIZE
        row == pos[2] \div SQUARE_SIZE
        piece == get_piece(grid, row, col)
    IN IF game_over
       THEN UNCHANGED <<grid, last_move, selected_piece, valid_moves,
                        current_turn, game_over, winner, error>>
       ELSE IF selected_piece # NoneT /\ <<row, col>> \in valid_moves
       THEN \E mv \in {make_move(grid, last_move, current_turn, game_over, winner,
                                 selected_piece, <<row, col>>)} :
                /\ grid' = mv.grid
                /\ last_move' = mv.last_move
                /\ current_turn' = mv.current_turn
                /\ game_over' = mv.game_over
                /\ winner' = mv.winner
                /\ error' = mv.error
                /\ selected_piece' = IF mv.error = "None" THEN NoneT ELSE selected_piece
                /\ valid_moves' = IF mv.error = "None" THEN {} ELSE valid_moves
       ELSE IF ~IndexOk(row) \/ ~IndexOk(col)
       THEN /\ error' = "IndexError"
            /\ UNCHANGED <<grid, last_move, selected_piece, valid_moves,
                           current_turn, game_over, winner>>
       ELSE IF piece # None /\ piece.color = current_turn
       THEN \E sel \in {select_piece(grid, last_move, row, col)} :
                /\ grid' = sel.grid
                /\ selected_piece' = sel.selected_piece
                /\ valid_moves' = sel.valid_moves
                /\ UNCHANGED <<last_move, current_turn, game_over, winner, error>>
       ELSE IF selected_piece # NoneT
       THEN /\ selected_piece' = NoneT
            /\ valid_moves' = {}
            /\ UNCHANGED <<grid, last_move, current_turn, game_over, winner, error>>
       ELSE UNCHANGED <<grid, last_move, selected_piece, valid_moves,
                        current_turn, game_over, winner, error>>

\* ------------------------------------------------------------ the user's clicks
\* The pixel at the centre of a square, as the mouse reports it: (x, y).
Pixel(row, col) ==
    <<col * SQUARE_SIZE + SQUARE_SIZE \div 2, row * SQUARE_SIZE + SQUARE_SIZE \div 2>>

ClickPositions == {Pixel(row, col) : row \in Idx, col \in Idx}

\* A move as the two clicks that make it.
Mv(fr, fc, tr, tc) == <<Pixel(fr, fc), Pixel(tr, tc)>>

\* f3 e5 g4 Qh4#: black mates.
FoolsMate ==
    Mv(6,5,5,5) \o Mv(1,4,3,4) \o Mv(6,6,4,6) \o Mv(0,3,4,7)

\* e4 a6 e5 d5 exd6: white captures en passant.
EnPassant ==
    Mv(6,4,4,4) \o Mv(1,0,2,0) \o Mv(4,4,3,4) \o Mv(1,3,3,3) \o Mv(3,4,2,3)

\* e4 a6 e5 d5 a3 a5: the en passant chance is let go.
EnPassantLapsed ==
    Mv(6,4,4,4) \o Mv(1,0,2,0) \o Mv(4,4,3,4) \o Mv(1,3,3,3) \o Mv(6,0,5,0) \o
    Mv(2,0,3,0)

\* e4 f5 Nf3 fxe4 Bc4 e3 a3 e2 O-O exf1=Q+: a black pawn on e2 while white castles,
\* then a black promotion.
PawnGuardedCastle ==
    Mv(6,4,4,4) \o Mv(1,5,3,5) \o Mv(7,6,5,5) \o Mv(3,5,4,4) \o Mv(7,5,4,2) \o
    Mv(4,4,5,4) \o Mv(6,0,5,0) \o Mv(5,4,6,4) \o Mv(7,4,7,6) \o Mv(6,4,7,5)

\* Nf3 Nf6 g3 g6 Bg2 Bg7 O-O O-O.
KingsideCastles ==
    Mv(7,6,5,5) \o Mv(0,6,2,5) \o Mv(6,6,5,6) \o Mv(1,6,2,6) \o Mv(7,5,6,6) \o
    Mv(0,5,1,6) \o Mv(7,4,7,6) \o Mv(0,4,0,6)

\* Nf3 Nf6 g3 g6 Bg2 Bg7 Kf1 Kf8 Ke1 Ke8: both kings step out and back.
KingWalk ==
    Mv(7,6,5,5) \o Mv(0,6,2,5) \o Mv(6,6,5,6) \o Mv(1,6,2,6) \o Mv(7,5,6,6) \o
    Mv(0,5,1,6) \o Mv(7,4,7,5) \o Mv(0,4,0,5) \o Mv(7,5,7,4) \o Mv(0,5,0,4)

\* Nf3 Nf6 g3 g6 Bg2 Bg7 Rg1 Rg8 Rh1 Rh8: both rooks step out and back.
RookWalk ==
    Mv(7,6,5,5) \o Mv(0,6,2,5) \o Mv(6,6,5,6) \o Mv(1,6,2,6) \o Mv(7,5,6,6) \o
    Mv(0,5,1,6) \o Mv(7,7,7,6) \o Mv(0,7,0,6) \o Mv(7,6,7,7) \o Mv(0,6,0,7)

\* d4 d5 Nc3 Nc6 Bf4 Bf5 Qd2 Qd7 O-O-O O-O-O.
QueensideCastles ==
    Mv(6,3,4,3) \o Mv(1,3,3,3) \o Mv(7,1,5,2) \o Mv(0,1,2,2) \o Mv(7,2,4,5) \o
    Mv(0,2,3,5) \o Mv(7,3,6,3) \o Mv(0,3,1,3) \o Mv(7,4,7,2) \o Mv(0,4,0,2)

\* e4 b6 Nf3 Ba6 g3 c6 Bg2 c5: black's bishop on a6 looks at the empty f1.
BishopGuardsF1 ==
    Mv(6,4,4,4) \o Mv(1,1,2,1) \o Mv(7,6,5,5) \o Mv(0,2,2,0) \o Mv(6,6,5,6) \o
    Mv(1,2,2,2) \o Mv(7,5,6,6) \o Mv(2,2,3,2)

\* a4 b5 axb5 a6 bxa6 Bb7 axb7 Nc6 bxa8=Q: a white promotion.
Promotion ==
    Mv(6,0,4,0) \o Mv(1,1,3,1) \o Mv(4,0,3,1) \o Mv(1,0,2,0) \o Mv(3,1,2,0) \o
    Mv(0,2,1,1) \o Mv(2,0,1,1) \o Mv(0,1,2,2) \o Mv(1,1,0,0)

\* Loyd's ten-move stalemate: e3 a5 Qh5 Ra6 Qxa5 h5 h4 Rah6 Qxc7 f6 Qxd7+ Kf7
\* Qxb7 Qd3 Qxb8 Qh7 Qxc8 Kg6 Qe6.
Stalemate ==
    Mv(6,4,5,4) \o Mv(1,0,3,0) \o Mv(7,3,3,7) \o Mv(0,0,2,0) \o Mv(3,7,3,0) \o
    Mv(1,7,3,7) \o Mv(6,7,4,7) \o Mv(2,0,2,7) \o Mv(3,0,1,2) \o Mv(1,5,2,5) \o
    Mv(1,2,1,3) \o Mv(0,4,1,5) \o Mv(1,3,1,1) \o Mv(0,3,5,3) \o Mv(1,1,0,1) \o
    Mv(5,3,1,7) \o Mv(0,1,0,2) \o Mv(1,5,2,6) \o Mv(0,2,2,4)

\* The lines of play the user may follow.
Lines ==
    {FoolsMate, EnPassant, EnPassantLapsed, PawnGuardedCastle,
     KingsideCastles, KingWalk, RookWalk, QueensideCastles,
     BishopGuardsF1, Promotion, Stalemate}

InitWith(L) ==
    /\ grid = setup_pieces
    /\ last_move = NoneT
    /\ selected_piece = NoneT
    /\ valid_moves = {}
    /\ current_turn = "white"
    /\ game_over = FALSE
    /\ winner = "None"
    /\ events \in L
    /\ free = 0
    /\ relocated = {}
    /\ error = "None"
    /\ stack = <<>>

Init == InitWith(Lines)

\* History: the identities of the piece objects that stand on another cell
\* of h than of g.
Relocated(g, h) ==
    {h[t[1]][t[2]].id : t \in
        {u \in Idx \X Idx :
            /\ h[u[1]][u[2]] # None
            /\ g[u[1]][u[2]].id # h[u[1]][u[2]].id
            /\ \E v \in Idx \X Idx : g[v[1]][v[2]].id = h[u[1]][u[2]].id}}

\* The next click of the line the user is following is delivered.
QueuedClick ==
    /\ error = "None"
    /\ stack = <<>>
    /\ events # <<>>
    /\ handle_click(Head(events))
    /\ events' = Tail(events)
    /\ relocated' = relocated \cup Relocated(grid, grid')
    /\ UNCHANGED free
    /\ UNCHANGED stack

\* The user leaves the line and clicks anywhere in the window; from then on
\* every click is the user's own.
UserClick ==
    /\ error = "None"
    /\ stack = <<>>
    /\ free < MaxFree
    /\ \E pos \in ClickPositions : handle_click(pos)
    /\ free' = free + 1
    /\ events' = <<>>
    /\ relocated' = relocated \cup Relocated(grid, grid')
    /\ UNCHANGED stack

\* Pixels just outside the window, left of or above it and right of or
\* below it.
OutsidePixels == {-(SQUARE_SIZE \div 2), WINDOW_SIZE + SQUARE_SIZE \div 2}

\* The positions of clicks that fall outside the window on at least one axis.
StrayPositions ==
    LET inside == {Pixel(k, k)[1] : k \in Idx}
    IN ((inside \cup OutsidePixels) \X (inside \cup OutsidePixels))
           \ (inside \X inside)

\* The user clicks outside the window while the mouse is captured; an
\* uncaught exception ends the event loop.
StrayClick ==
    /\ error = "None"
    /\ stack = <<>>
    /\ free < MaxFree
    /\ \E pos \in StrayPositions : handle_click(pos)
    /\ free' = free + 1
    /\ events' = <<>>
    /\ relocated' = relocated \cup Relocated(grid, grid')
    /\ UNCHANGED stack

Next == QueuedClick \/ UserClick

NextStray == QueuedClick \/ UserClick \/ StrayClick

Spec == Init /\ [][Next]_vars

\* Lines that end a game or come close to it.
StatusLines == {FoolsMate, Stalemate, BishopGuardsF1}
InitStatus == InitWith(StatusLines)
SpecStatus == InitStatus /\ [][Next]_vars

\* A mate and a stalemate, each followed by clicks on pieces of either colour.
GameOverLines ==
    {FoolsMate \o Mv(6,0,4,0) \o Mv(4,7,7,4),
     Stalemate \o Mv(1,6,2,6) \o Mv(2,4,1,4)}
InitGameOver == InitWith(GameOverLines)
SpecGameOver == InitGameOver /\ [][Next]_vars

\* Lines in which a king could, does, or can no longer castle.
CastlingLines ==
    {PawnGuardedCastle, KingsideCastles, KingWalk, RookWalk, QueensideCastles,
     BishopGuardsF1}
InitCastling == InitWith(CastlingLines)
SpecCastling == InitCastling /\ [][Next]_vars

\* Lines with en passant chances and promotions.
PawnLines == {EnPassant, EnPassantLapsed, Promotion, PawnGuardedCastle}
InitPawns == InitWith(PawnLines)
SpecPawns == InitPawns /\ [][Next]_vars

\* Every first move of white, each as a line of its own.
OpeningLines ==
    {Mv(m[1][1], m[1][2], m[2][1], m[2][2]) :
        m \in get_all_valid_moves(setup_pieces, NoneT, "white").moves}
InitOpening == InitWith(OpeningLines)
SpecOpening == InitOpening /\ [][Next]_vars

\* The same lines with clicks outside the window among the user's clicks.
SpecStray == InitPawns /\ [][NextStray]_vars

\* ------------------------------------------------------------ claims
Colors == {"white", "black"}

Cells == Idx \X Idx

At(g, s) == g[s[1]][s[2]]

\* ------------------------------------------------------------ call structure
\* The queries of Board as they run: stack holds the frames of the calls in
\* progress, the innermost last.  A frame is the function's name, its
\* arguments (sq, to, color), its position in its loops (pc, cursor, todo) and, for
\* is_move_legal, the locals it restores the grid from.  What a call
\* returns is the value of the operator of the same name.
NewFrame(fn, sq, color) ==
    [fn |-> fn, sq |-> sq, color |-> color, pc |-> 0, cursor |-> 0,
     to |-> <<0, 0>>, todo |-> {}, captured |-> None, original_pos |-> <<0, 0>>, ep |-> None]

Top == stack[Len(stack)]
Callers == SubSeq(stack, 1, Len(stack) - 1)

\* The frame on top returns.
Return == stack' = Callers
\* The frame on top goes on as f.
Goto(f) == stack' = Append(Callers, f)
\* The frame on top calls callee and will go on as f.
Call(f, callee) == stack' = Append(Append(Callers, f), callee)

\* for row in range(BOARD_SIZE): for col in range(BOARD_SIZE), numbered.
CellOf(k) == <<k \div BOARD_SIZE, k % BOARD_SIZE>>
LastCell == BOARD_SIZE * BOARD_SIZE

\* The first cell from k on, in loop order, that holds a piece of the colour;
\* LastCell when the loops run out.
NextOf(g, k, color) ==
    LET found == {j \in k .. (LastCell - 1) : At(g, CellOf(j)).color = color}
    IN IF found = {} THEN LastCell
       ELSE CHOOSE j \in found : \A i \in found : j <= i

\* Faulty variant: the attack detector asks every opposing piece, the king
\* included, for its moves.
AsksForMoves_KingsToo(piece) == TRUE

\* Whether is_position_under_attack calls piece.get_possible_moves: not for
\* a King, whose eight neighbours it lists itself.
AsksForMoves(piece) == piece.kind # "King"

\* piece.get_possible_moves(board): pawn, rook, knight, bishop and queen loop
\* over their directions and call only get_piece, is_valid_position and
\* get_en_passant_moves; the king then calls board.get_castling_moves.
Run_get_possible_moves ==
    /\ Top.fn = "get_possible_moves"
    /\ IF At(grid, Top.sq).kind # "King" \/ Top.pc = 1
       THEN Return
       ELSE Call([Top EXCEPT !.pc = 1],
                 NewFrame("get_castling_moves", Top.sq, At(grid, Top.sq).color))
    /\ UNCHANGED grid

\* The squares one side of get_castling_moves passes to
\* is_position_under_attack, in order: the king's square, then the square it
\* crosses, then the square it lands on, each only if the one before is not
\* attacked.
castling_side_calls(g, lm, king, rook, between, crossed, landing) ==
    LET row == king.position[1]
        col == king.position[2]
    IN IF /\ rook.kind = "Rook" /\ ~rook.has_moved
          /\ \A c \in between : g[row][c] = None
       THEN <<<<row, col>>>> \o
            (IF is_position_under_attack(g, lm, row, col, king.color) THEN <<>>
             ELSE <<<<row, crossed>>>> \o
                  (IF is_position_under_attack(g, lm, row, crossed, king.color)
                   THEN <<>> ELSE <<<<row, landing>>>>))
       ELSE <<>>

\* All calls of is_position_under_attack that get_castling_moves(king) makes.
castling_calls(g, lm, king) ==
    IF king.has_moved THEN <<>>
    ELSE castling_side_calls(g, lm, king, g[king.position[1]][7], {5, 6}, 5, 6)
         \o castling_side_calls(g, lm, king, g[king.position[1]][0], {1, 2, 3}, 3, 2)

Run_get_castling_moves ==
    /\ Top.fn = "get_castling_moves"
    /\ \E calls \in {castling_calls(grid, last_move, At(grid, Top.sq))} :
          IF Top.pc < Len(calls)
          THEN Call([Top EXCEPT !.pc = @ + 1],
                    NewFrame("is_position_under_attack", calls[Top.pc + 1], Top.color))
          ELSE Return
    /\ UNCHANGED grid

\* is_position_under_attack(row, col, color): pc is the cell its loops have
\* come to.  The piece before pc, if it was asked for its moves, decides them:
\* return True on a hit.  Otherwise go to the next opposing piece: ask it, or,
\* for a king, compare the square with its neighbours.
Run_is_position_under_attack ==
    /\ Top.fn = "is_position_under_attack"
    /\ LET opponent_color == Opponent(Top.color)
           asked == At(grid, CellOf(Top.pc - 1))
           k == NextOf(grid, Top.pc, opponent_color)
           piece == At(grid, CellOf(k))
       IN IF /\ Top.pc > 0 /\ asked.color = opponent_color /\ AsksForMoves(asked)
             /\ Top.sq \in get_possible_moves(grid, last_move, asked)
          THEN Return
          ELSE IF k = LastCell THEN Return
          ELSE IF AsksForMoves(piece)
          THEN Call([Top EXCEPT !.pc = k + 1],
                    NewFrame("get_possible_moves", CellOf(k), piece.color))
          ELSE IF Top.sq \in {<<CellOf(k)[1] + d[1], CellOf(k)[2] + d[2]>> :
                                 d \in KingOffsets}
          THEN Return
          ELSE Goto([Top EXCEPT !.pc = k + 1])
    /\ UNCHANGED grid

\* is_in_check(color): find the king, then one call of
\* is_position_under_attack for its square.
Run_is_in_check ==
    /\ Top.fn = "is_in_check"
    /\ LET kings == {j \in 0 .. (LastCell - 1) :
                        /\ At(grid, CellOf(j)).kind = "King"
                        /\ At(grid, CellOf(j)).color = Top.color}
       IN IF kings = {} \/ Top.pc = 1
          THEN Return
          ELSE Call([Top EXCEPT !.pc = 1],
                    NewFrame("is_position_under_attack",
                             CellOf(CHOOSE j \in kings : \A i \in kings : j <= i),
                             Top.color))
    /\ UNCHANGED grid

\* is_move_legal(from_pos, to_pos): make the move on the grid, call
\* is_in_check for the mover's colour, undo the move, return.
Run_is_move_legal ==
    /\ Top.fn = "is_move_legal"
    /\ LET piece == At(grid, Top.sq)
           captured_piece == At(grid, Top.to)
           en_passant_captured ==
               IF piece.kind = "Pawn" /\ Top.to[2] # Top.sq[2] /\ captured_piece = None
               THEN grid[Top.sq[1]][Top.to[2]]
               ELSE None
       IN IF Top.pc = 0
          THEN /\ grid' = SimulateMove(grid, Top.sq, Top.to)
               /\ Call([Top EXCEPT !.pc = 1, !.captured = captured_piece,
                                   !.original_pos = piece.position,
                                   !.ep = en_passant_captured],
                       NewFrame("is_in_check", <<0, 0>>, piece.color))
          ELSE /\ grid' = UndoMove(grid, Top.sq, Top.to, Top.captured,
                                   Top.original_pos, Top.ep)
               /\ Return

\* get_all_valid_moves(color): for each piece of the colour, in loop order,
\* one call of get_possible_moves (pc 1), then one call of is_move_legal for
\* each move it returned (todo, pc 2).
Run_get_all_valid_moves ==
    /\ Top.fn = "get_all_valid_moves"
    /\ LET k == NextOf(grid, Top.cursor, Top.color)
           piece_moves == IF Top.pc = 1
                          THEN get_possible_moves(grid, last_move, At(grid, Top.sq))
                          ELSE Top.todo
       IN IF Top.pc = 0
          THEN IF k = LastCell THEN Return
               ELSE Call([Top EXCEPT !.pc = 1, !.sq = CellOf(k), !.cursor = k + 1],
                         NewFrame("get_possible_moves", CellOf(k), Top.color))
          ELSE IF piece_moves = {}
          THEN Goto([Top EXCEPT !.pc = 0, !.todo = {}])
          ELSE \E move \in {CHOOSE m \in piece_moves : TRUE} :
                  Call([Top EXCEPT !.pc = 2, !.todo = piece_moves \ {move}],
                       [NewFrame("is_move_legal", Top.sq, Top.color)
                            EXCEPT !.to = move])
    /\ UNCHANGED grid

\* is_checkmate(color) and is_stalemate(color): is_in_check, and depending
\* on what it returned, get_all_valid_moves.
Run_is_checkmate ==
    /\ Top.fn = "is_checkmate"
    /\ IF Top.pc = 0
       THEN Call([Top EXCEPT !.pc = 1], NewFrame("is_in_check", <<0, 0>>, Top.color))
       ELSE IF Top.pc = 1 /\ is_in_check(grid, last_move, Top.color)
       THEN Call([Top EXCEPT !.pc = 2],
                 NewFrame("get_all_valid_moves", <<0, 0>>, Top.color))
       ELSE Return
    /\ UNCHANGED grid

Run_is_stalemate ==
    /\ Top.fn = "is_stalemate"
    /\ IF Top.pc = 0
       THEN Call([Top EXCEPT !.pc = 1], NewFrame("is_in_check", <<0, 0>>, Top.color))
       ELSE IF Top.pc = 1 /\ ~is_in_check(grid, last_move, Top.color)
       THEN Call([Top EXCEPT !.pc = 2],
                 NewFrame("get_all_valid_moves", <<0, 0>>, Top.color))
       ELSE Return
    /\ UNCHANGED grid

\* The call in progress takes its next step.
Run ==
    /\ stack # <<>>
    /\ \/ Run_get_possible_moves
       \/ Run_get_castling_moves
       \/ Run_is_position_under_attack
       \/ Run_is_in_check
       \/ Run_is_move_legal
       \/ Run_get_all_valid_moves
       \/ Run_is_checkmate
       \/ Run_is_stalemate
    /\ UNCHANGED <<last_move, selected_piece, valid_moves, current_turn,
                   game_over, winner, events, free, relocated, error>>

\* Between two clicks any query is called on the board as it stands: the
\* five queries for either colour, get_possible_moves for any piece,
\* is_move_legal for any piece and any of its candidate destinations.
Queries ==
    {NewFrame(fn, <<0, 0>>, color) :
        fn \in {"is_in_check", "get_all_valid_moves", "is_checkmate", "is_stalemate"},
        color \in Colors}
    \cup {NewFrame("get_possible_moves", s, At(grid, s).color) :
             s \in {t \in Cells : At(grid, t) # None}}
    \cup UNION {{[NewFrame("is_move_legal", s, At(grid, s).color) EXCEPT !.to = to] :
                    to \in get_possible_moves(grid, last_move, At(grid, s))} :
                s \in {t \in Cells : At(grid, t) # None}}

StartQuery ==
    /\ stack = <<>>
    /\ selected_piece = NoneT
    /\ \E f \in Queries : stack' = <<f>>
    /\ UNCHANGED <<grid, last_move, selected_piece, valid_moves, current_turn,
                   game_over, winner, events, free, relocated, error>>

\* Lines whose boards have castling available to either king, a check and
\* a mate.
QueryLines == {KingsideCastles, FoolsMate}
InitQueries == InitWith(QueryLines)
NextQueries == QueuedClick \/ StartQuery \/ Run
\* A call in progress is not suspended for ever.
SpecQueries == InitQueries /\ [][NextQueries]_vars /\ WF_vars(Run)

\* The colour of the piece that made the last move.
Mover == last_move[3].color

\* The last move was a castling: a king that went two columns.
LastMoveCastled ==
    /\ last_move # NoneT
    /\ last_move[3].kind = "King"
    /\ Abs(last_move[2][2] - last_move[1][2]) = 2

\* C1: once a move has been applied through handle_click (castling rook
\* relocation, en passant removal and promotion included), the side that
\* made it is not in check.
C1_MoverNotInCheck ==
    last_move # NoneT => ~is_in_check(grid, last_move, Mover)

\* A castling has just been applied and the side that castled is not in check.
C1_Witness ==
    LastMoveCastled /\ ~is_in_check(grid, last_move, Mover)

\* Every trial move of every piece on the board, made and undone, gives the
\* grid back.
RevertRestoresGrid ==
    \A s \in Cells : At(grid, s) # None =>
        \A to \in get_possible_moves(grid, last_move, At(grid, s)) :
            is_move_legal_grid(grid, s, to) = grid

\* A click that applies no move (a selection and its is_move_legal calls)
\* leaves grid and last_move alone; a click that applies a move leaves the
\* grid as the executor made it, whatever get_all_valid_moves then tried.
QueriesKeepBoard ==
    IF last_move' = last_move
    THEN grid' = grid
    ELSE grid' = make_move_board(grid, last_move, last_move'[1], last_move'[2]).grid

\* C2: is_move_legal, get_all_valid_moves and select_piece leave the grid
\* (cell contents, and with them every piece's position and has_moved) and
\* last_move as they found them, for every piece on the board and every
\* candidate destination of it.
C2_SimulateRevertNoOp == [] RevertRestoresGrid /\ [][QueriesKeepBoard]_vars

\* A pawn with an en passant candidate has been selected, the candidate is
\* among its legal destinations, and the passed pawn stands on its square.
C2_Witness ==
    /\ selected_piece # NoneT
    /\ At(grid, selected_piece).kind = "Pawn"
    /\ \E to \in get_en_passant_moves(last_move, At(grid, selected_piece)) :
          /\ to \in valid_moves
          /\ At(grid, <<selected_piece[1], to[2]>>).kind = "Pawn"
          /\ At(grid, to) = None

\* ---- C3
\* C3: for each colour, is_checkmate and is_stalemate are never both true;
\* when either is true the colour has no legal move at all; checkmate goes
\* with being in check and stalemate with not being in check.
C3_MateStalemateExclusive ==
    \A c \in Colors :
        LET cm == is_checkmate(grid, last_move, c).result
            sm == is_stalemate(grid, last_move, c).result
        IN /\ ~(cm /\ sm)
           /\ (cm \/ sm) => get_all_valid_moves(grid, last_move, c).moves = {}
           /\ cm => is_in_check(grid, last_move, c)
           /\ sm => ~is_in_check(grid, last_move, c)

\* The side to move is checkmated: is_checkmate is true of it, is_stalemate
\* is not.
C3_Witness ==
    /\ is_checkmate(grid, last_move, current_turn).result
    /\ ~is_stalemate(grid, last_move, current_turn).result

\* ---- C4
\* The four moves of the fool's mate, and nothing else, have been played.
FoolsMatePlayed ==
    /\ free = 0 /\ events = <<>>
    /\ last_move # NoneT
    /\ last_move[1] = <<0, 3>> /\ last_move[2] = <<4, 7>>
    /\ At(grid, <<4, 7>>).kind = "Queen" /\ At(grid, <<4, 7>>).color = "black"
    /\ At(grid, <<5, 5>>).kind = "Pawn" /\ At(grid, <<4, 6>>).kind = "Pawn"
    /\ At(grid, <<3, 4>>).kind = "Pawn"

\* C4: game_over is true exactly when the side to move has no legal move;
\* the winner is then the side that just moved if the side to move is in
\* check and None if it is not; so while game_over is false the side to
\* move has a legal move; and the fool's mate ends with game_over true and
\* winner black.
C4_GameOverIffNoLegalMove ==
    /\ game_over <=> (get_all_valid_moves(grid, last_move, current_turn).moves = {})
    /\ game_over =>
          /\ last_move # NoneT
          /\ winner = IF is_in_check(grid, last_move, current_turn)
                      THEN Mover ELSE "None"
          /\ Mover = Opponent(current_turn)
    /\ FoolsMatePlayed => game_over /\ winner = "black"

\* The game has ended in stalemate: over, no winner, the side to move not in
\* check and without a legal move.
C4_Witness ==
    /\ game_over /\ winner = "None"
    /\ ~is_in_check(grid, last_move, current_turn)
    /\ get_all_valid_moves(grid, last_move, current_turn).moves = {}

\* ---- C5
\* s lies on an unobstructed ray from t in one of the directions.
OnRay(g, t, s, directions) ==
    \E d \in directions : \E i \in 1 .. (BOARD_SIZE - 1) :
        /\ s = <<t[1] + i * d[1], t[2] + i * d[2]>>
        /\ \A j \in 1 .. (i - 1) : At(g, <<t[1] + j * d[1], t[2] + j * d[2]>>) = None

\* Square s is attacked by colour by: a piece of that colour could capture
\* on s if an enemy piece stood there.
Attacked(g, s, by) ==
    \E t \in Cells :
        LET p == At(g, t)
            dr == s[1] - t[1]
            dc == s[2] - t[2]
        IN /\ p.color = by
           /\ CASE p.kind = "Pawn" ->
                      dr = (IF by = "white" THEN -1 ELSE 1) /\ Abs(dc) = 1
                [] p.kind = "Knight" -> <<dr, dc>> \in KnightOffsets
                [] p.kind = "King" -> <<dr, dc>> \in KingOffsets
                [] p.kind = "Rook" -> OnRay(g, t, s, RookDirections)
                [] p.kind = "Bishop" -> OnRay(g, t, s, BishopDirections)
                [] p.kind = "Queen" ->
                      OnRay(g, t, s, RookDirections \cup BishopDirections)
                [] OTHER -> FALSE

\* The squares a castling king stands on, crosses and lands on.
KingPath(s, dest) ==
    {<<s[1], c>> : c \in {k \in Idx : (s[2] <= k /\ k <= dest[2]) \/
                                      (dest[2] <= k /\ k <= s[2])}}

\* C5: a castling destination is not generated on a side where the king's
\* square, the square it crosses or the square it lands on is attacked by
\* the other colour.
C5_NoCastlingThroughAttack ==
    \A s \in Cells : At(grid, s).kind = "King" =>
        \A dest \in get_castling_moves(grid, last_move, At(grid, s)) :
            \A q \in KingPath(s, dest) :
                ~Attacked(grid, q, Opponent(At(grid, s).color))

\* ---- C6
\* C6: a castling destination is generated only for a king that was never
\* relocated, towards a corner of its row holding a rook of its colour that
\* was never relocated, with every square between them empty; so a king or
\* rook that has once been relocated is never offered castling again, not
\* even back on its original square.
C6_CastlingOnlyWithUnmovedPieces ==
    \A s \in Cells : At(grid, s).kind = "King" =>
        \A dest \in get_castling_moves(grid, last_move, At(grid, s)) :
            LET corner == IF dest[2] > s[2] THEN BOARD_SIZE - 1 ELSE 0
                rook == At(grid, <<s[1], corner>>)
            IN /\ dest \in {<<s[1], 6>>, <<s[1], 2>>}
               /\ At(grid, s).id \notin relocated
               /\ rook.kind = "Rook"
               /\ rook.color = At(grid, s).color
               /\ rook.id \notin relocated
               /\ \A c \in Idx :
                     ((s[2] < c /\ c < corner) \/ (corner < c /\ c < s[2]))
                         => At(grid, <<s[1], c>>) = None

\* A king that went away and came back stands on its original square next
\* to an empty f and g file and a rook that never moved, and is offered no
\* castling.
C6_Witness ==
    \E s \in {<<0, 4>>, <<7, 4>>} :
        /\ At(grid, s).kind = "King"
        /\ At(grid, s).id = InitId(s[1], s[2])
        /\ At(grid, s).id \in relocated
        /\ At(grid, <<s[1], 7>>).kind = "Rook"
        /\ At(grid, <<s[1], 7>>).id \notin relocated
        /\ At(grid, <<s[1], 5>>) = None /\ At(grid, <<s[1], 6>>) = None
        /\ ~Attacked(grid, s, Opponent(At(grid, s).color))
        /\ ~Attacked(grid, <<s[1], 5>>, Opponent(At(grid, s).color))
        /\ ~Attacked(grid, <<s[1], 6>>, Opponent(At(grid, s).color))
        /\ get_castling_moves(grid, last_move, At(grid, s)) = {}

\* ---- C7
\* The forward direction of a colour's pawns.
Direction(color) == IF color = "white" THEN -1 ELSE 1

\* A click has applied a move.
MoveApplied == last_move' # last_move

\* Whenever a pawn has an en passant destination, the last move was a
\* two-row advance of a pawn of the other colour that ended beside it, and
\* the destination is the square that pawn passed over.
EnPassantOnlyAfterDoubleStep ==
    \A s \in Cells : At(grid, s).kind = "Pawn" =>
        \A d \in get_en_passant_moves(last_move, At(grid, s)) :
            /\ last_move # NoneT
            /\ last_move[3].kind = "Pawn"
            /\ last_move[3].color = Opponent(At(grid, s).color)
            /\ Abs(last_move[2][1] - last_move[1][1]) = 2
            /\ last_move[2][1] = s[1]
            /\ Abs(last_move[2][2] - s[2]) = 1
            /\ d = <<s[1] + Direction(At(grid, s).color), last_move[2][2]>>
            /\ 2 * d[1] = last_move[1][1] + last_move[2][1]

\* Once a further move is applied, a pawn that had an en passant destination
\* and is still on the board no longer has that destination among its
\* possible moves.
EnPassantLapses ==
    MoveApplied =>
        \A s \in Cells : At(grid, s).kind = "Pawn" =>
            \A d \in get_en_passant_moves(last_move, At(grid, s)) :
                \A t \in Cells :
                    At(grid', t).id = At(grid, s).id =>
                        d \notin get_possible_moves(grid', last_move', At(grid', t))

\* C7: an en passant destination is generated for a pawn only on the ply
\* right after an opposing pawn's two-row advance that ended on the same
\* row in an adjacent column; after any further move the same pawn's
\* get_possible_moves no longer contains it.
C7_EnPassantOnlyImmediately ==
    [] EnPassantOnlyAfterDoubleStep /\ [][EnPassantLapses]_vars

\* The chance has lapsed: a white pawn on e5 and a black pawn beside it on
\* d5 that has moved, d6 empty, the last move a one-row pawn step elsewhere,
\* and d6 not among the white pawn's possible moves.
C7_Witness ==
    /\ At(grid, <<3, 4>>).kind = "Pawn" /\ At(grid, <<3, 4>>).color = "white"
    /\ At(grid, <<3, 3>>).kind = "Pawn" /\ At(grid, <<3, 3>>).color = "black"
    /\ At(grid, <<3, 3>>).has_moved
    /\ At(grid, <<2, 3>>) = None /\ At(grid, <<1, 3>>) = None
    /\ last_move # NoneT /\ last_move[2] # <<3, 3>>
    /\ <<2, 3>> \notin get_possible_moves(grid, last_move, At(grid, <<3, 4>>))

\* ---- C8
\* The move being applied is a pawn's change of column onto an empty square.
EnPassantApplied ==
    /\ MoveApplied
    /\ last_move'[3].kind = "Pawn"
    /\ last_move'[2][2] # last_move'[1][2]
    /\ At(grid, last_move'[2]) = None

\* What such a move does to the board.
EnPassantRemovesPassedPawn ==
    LET from_pos == last_move'[1]
        to_pos == last_move'[2]
        passed == <<from_pos[1], to_pos[2]>>
    IN /\ last_move # NoneT
       /\ last_move[2] = passed
       /\ last_move[3].kind = "Pawn"
       /\ last_move[3].color = Opponent(last_move'[3].color)
       /\ Abs(last_move[2][1] - last_move[1][1]) = 2
       /\ At(grid, passed).id = last_move[3].id
       /\ At(grid, passed).kind = "Pawn"
       /\ At(grid', passed) = None
       /\ to_pos = <<from_pos[1] + Direction(last_move'[3].color), to_pos[2]>>
       /\ At(grid', to_pos).id = At(grid, from_pos).id
       /\ At(grid', to_pos).id = last_move'[3].id
       /\ At(grid', to_pos).kind = "Pawn"
       /\ At(grid', to_pos).position = to_pos
       /\ At(grid', from_pos) = None
       /\ \A t \in Cells \ {from_pos, to_pos, passed} : At(grid', t) = At(grid, t)

\* C8: when a pawn move that changes column onto an empty square is applied,
\* the piece removed at (from row, to column) is exactly the opposing pawn
\* that made the two-row advance on the move before; the destination was
\* empty, the capturing pawn ends one row forward in the destination column,
\* and no other square loses a piece.
C8_EnPassantCapture == [][EnPassantApplied => EnPassantRemovesPassedPawn]_vars

\* White has just captured e5xd6 en passant in the EnPassant line: the pawn
\* stands on d6, and d5, where the passed pawn stood, is empty.
C8_Witness ==
    /\ free = 0
    /\ last_move # NoneT
    /\ last_move[1] = <<3, 4>> /\ last_move[2] = <<2, 3>>
    /\ last_move[3].kind = "Pawn"
    /\ At(grid, <<2, 3>>).id = last_move[3].id
    /\ At(grid, <<3, 3>>) = None /\ At(grid, <<3, 4>>) = None
    /\ At(grid, <<1, 3>>) = None

\* ---- C9
\* The last row of a colour's pawns.
LastRow(color) == IF color = "white" THEN 0 ELSE BOARD_SIZE - 1

NoPawnOnLastRows ==
    \A s \in Cells : s[1] \in {0, BOARD_SIZE - 1} => At(grid, s).kind # "Pawn"

\* The move being applied takes a pawn to its last row.
PromotionApplied ==
    /\ MoveApplied
    /\ last_move'[3].kind = "Pawn"
    /\ last_move'[2][1] = LastRow(last_move'[3].color)

\* The destination then holds a Queen of the pawn's colour whose position
\* is the destination, and the status of the new side to move is the one
\* that board gives.
PromotedToQueen ==
    LET to_pos == last_move'[2]
    IN /\ At(grid', to_pos).kind = "Queen"
       /\ At(grid', to_pos).color = last_move'[3].color
       /\ At(grid', to_pos).position = to_pos
       /\ At(grid', to_pos).id # last_move'[3].id
       /\ current_turn' = Opponent(last_move'[3].color)
       /\ game_over' <=>
             (get_all_valid_moves(grid', last_move', current_turn').moves = {})
       /\ game_over' =>
             winner' = IF is_in_check(grid', last_move', current_turn')
                       THEN last_move'[3].color ELSE "None"

\* C9: a pawn move that ends on the pawn's last row leaves a Queen of the
\* pawn's colour on the destination, its position field the destination,
\* before the turn changes, and the status of the new side to move is
\* evaluated against that Queen; no Pawn is ever on row 0 or row 7.
C9_PromotionToQueen == [] NoPawnOnLastRows /\ [][PromotionApplied => PromotedToQueen]_vars

\* A pawn has just moved to its last row and a Queen made by promotion
\* stands there.
C9_Witness ==
    /\ last_move # NoneT
    /\ last_move[3].kind = "Pawn"
    /\ last_move[2][1] = LastRow(last_move[3].color)
    /\ At(grid, last_move[2]).kind = "Queen"
    /\ At(grid, last_move[2]).id = PromotedId(last_move[3].id)

\* ---- C10
\* The move being applied is a king's move of two columns.
CastlingApplied ==
    /\ MoveApplied
    /\ last_move'[3].kind = "King"
    /\ Abs(last_move'[2][2] - last_move'[1][2]) = 2

\* What castling does to the board.
CastlingMovesKingAndRook ==
    LET from_pos == last_move'[1]
        to_pos == last_move'[2]
        row == from_pos[1]
        kingside == to_pos[2] > from_pos[2]
        corner == <<row, IF kingside THEN 7 ELSE 0>>
        rook_to == <<row, IF kingside THEN 5 ELSE 3>>
    IN /\ to_pos = <<row, IF kingside THEN 6 ELSE 2>>
       /\ At(grid', to_pos).id = At(grid, from_pos).id
       /\ At(grid', to_pos).kind = "King"
       /\ At(grid', to_pos).position = to_pos
       /\ At(grid', to_pos).has_moved
       /\ At(grid, corner).kind = "Rook"
       /\ At(grid', rook_to).id = At(grid, corner).id
       /\ At(grid', rook_to).kind = "Rook"
       /\ At(grid', rook_to).color = At(grid', to_pos).color
       /\ At(grid', rook_to).position = rook_to
       /\ At(grid', rook_to).has_moved
       /\ At(grid', from_pos) = None
       /\ At(grid', corner) = None
       /\ \A t \in Cells \ {from_pos, to_pos, corner, rook_to} :
             At(grid', t) = At(grid, t)

\* C10: applying a castling move leaves the king on column 6 and the rook
\* of its row on column 5 (king side), or the king on column 2 and the rook
\* on column 3 (queen side); the king's square and the rook's corner are
\* empty, both pieces have has_moved true and position their new cell, and
\* every other cell is unchanged.
C10_CastlingExecution == [][CastlingApplied => CastlingMovesKingAndRook]_vars

\* A queen-side castling has just been applied: king on c, rook on d, the
\* a and e squares of the row empty.
C10_Witness ==
    /\ LastMoveCastled
    /\ last_move[2][2] = 2
    /\ At(grid, last_move[2]).kind = "King"
    /\ At(grid, <<last_move[2][1], 3>>).kind = "Rook"
    /\ At(grid, <<last_move[2][1], 3>>).has_moved
    /\ At(grid, <<last_move[2][1], 0>>) = None
    /\ At(grid, <<last_move[2][1], 4>>) = None

\* ---- C11
\* C11: in every state between operations, every grid cell that holds a
\* piece holds one whose position field is that cell, and no piece object
\* stands on two cells.
C11_PositionMatchesCell ==
    /\ \A s \in Cells : At(grid, s) # None => At(grid, s).position = s
    /\ \A s \in Cells : \A t \in Cells :
          (At(grid, s) # None /\ At(grid, s).id = At(grid, t).id) => s = t

\* A castling has been applied and the other side has since selected a
\* piece (so legality queries have run on the castled board); king and rook
\* carry the cells they stand on.
C11_Witness ==
    /\ LastMoveCastled
    /\ selected_piece # NoneT
    /\ At(grid, last_move[2]).position = last_move[2]
    /\ \E c \in {3, 5} :
          /\ At(grid, <<last_move[2][1], c>>).kind = "Rook"
          /\ At(grid, <<last_move[2][1], c>>).has_moved
          /\ At(grid, <<last_move[2][1], c>>).position = <<last_move[2][1], c>>

\* ---- C12
PieceIds(g) == {At(g, s).id : s \in {t \in Cells : At(g, t) # None}}

\* The identities of the pieces on the board whose has_moved is true.
MovedIds(g) == {At(g, s).id : s \in {t \in Cells : At(g, t).has_moved}}

\* All 32 pieces start with has_moved false.
InitiallyUnmoved ==
    /\ Cardinality(PieceIds(grid)) = 32
    /\ \A s \in Cells : ~At(grid, s).has_moved

\* A piece's has_moved is true exactly when the piece has been relocated.
MovedIffRelocated ==
    \A s \in Cells : At(grid, s) # None =>
        (At(grid, s).has_moved <=> At(grid, s).id \in relocated)

\* Across a click: a flag that is true stays true; a flag becomes true only
\* for a piece the click relocated; a click that applies no move (a
\* selection with its legality queries) changes no flag.
HasMovedStep ==
    /\ MovedIds(grid) \cap PieceIds(grid') \subseteq MovedIds(grid')
    /\ (MovedIds(grid') \cap PieceIds(grid)) \ MovedIds(grid)
           \subseteq Relocated(grid, grid')
    /\ Relocated(grid, grid') \subseteq MovedIds(grid')
    /\ last_move' = last_move =>
          /\ PieceIds(grid') = PieceIds(grid)
          /\ MovedIds(grid') = MovedIds(grid)

\* C12: has_moved is false for all 32 pieces initially, becomes true for a
\* piece (the rook of a castling included) at the first move_piece that
\* relocates it, is never set back to false, and is changed by no legality
\* query.
C12_HasMovedMonotonic ==
    InitiallyUnmoved /\ [] MovedIffRelocated /\ [][HasMovedStep]_vars

\* A rook that went away stands on its original corner again, has_moved
\* still true, while another piece of its colour has never moved.
C12_Witness ==
    \E s \in {<<0, 7>>, <<7, 7>>} :
        /\ At(grid, s).kind = "Rook"
        /\ At(grid, s).id = InitId(s[1], s[2])
        /\ At(grid, s).has_moved
        /\ At(grid, s).id \in relocated
        /\ At(grid, <<s[1], 0>>).kind = "Rook"
        /\ ~At(grid, <<s[1], 0>>).has_moved

\* ---- C13
\* The square a click position names.
Square(pos) == <<pos[2] \div SQUARE_SIZE, pos[1] \div SQUARE_SIZE>>

\* The click names a legal destination of the selected piece.
SelectedDestination(pos) ==
    selected_piece # NoneT /\ Square(pos) \in valid_moves

\* The click left the board, the move record, the turn and the result alone.
BoardUntouched ==
    /\ grid' = grid
    /\ last_move' = last_move
    /\ current_turn' = current_turn
    /\ game_over' = game_over
    /\ winner' = winner

\* C13: handle_click changes the grid (has_moved flags included), last_move
\* and current_turn only when a piece is selected and the clicked square is
\* in valid_moves; every other click (an empty square, a piece of the side
\* not to move, a destination not in valid_moves) leaves grid, last_move,
\* current_turn, game_over and winner as they were and changes at most
\* selected_piece and valid_moves.
C13_OnlyValidDestinationMutates ==
    [][\A pos \in ClickPositions :
          SelectedDestination(pos) \/ BoardUntouched \/ ~handle_click(pos)]_vars

\* The user has clicked, no move has ever been applied, and nothing is
\* selected: the click was on an empty square or a black piece, or on a
\* square that is no destination of the piece that was selected.
C13_Witness ==
    /\ free = 1
    /\ last_move = NoneT
    /\ selected_piece = NoneT
    /\ grid = setup_pieces
    /\ current_turn = "white"

\* ---- C14
\* The click changed nothing and raised nothing.
RejectedUnchanged ==
    /\ UNCHANGED <<grid, last_move, selected_piece, valid_moves,
                   current_turn, game_over, winner>>
    /\ error' = "None"

\* C14: a click whose position maps to a row or column outside 0..7 is
\* rejected before any Board operation is reached (so nothing is raised
\* from inside one) and leaves all state unchanged.
C14_OutOfRangeRejected ==
    [][\A pos \in StrayPositions : handle_click(pos) => RejectedUnchanged]_vars

\* ---- C15
\* The legal moves of a colour, as <<from, to>> pairs.
LegalMoves(color) == get_all_valid_moves(grid, last_move, color).moves

\* The legal moves made by pieces of one kind.
MovesOfKind(moves, kind) == {m \in moves : At(grid, m[1]).kind = kind}

\* Exactly one move has been applied, by white.
OnePly ==
    /\ last_move # NoneT
    /\ last_move[3].color = "white"
    /\ relocated = {last_move[3].id}

\* C15: in the initial position get_all_valid_moves('white') holds exactly
\* 20 moves, 16 by pawns and 4 by knights; after any single legal first move
\* of white, black has exactly 20 legal moves.
C15_TwentyOpeningMoves ==
    /\ last_move = NoneT =>
          /\ Cardinality(LegalMoves("white")) = 20
          /\ Cardinality(MovesOfKind(LegalMoves("white"), "Pawn")) = 16
          /\ Cardinality(MovesOfKind(LegalMoves("white"), "Knight")) = 4
          /\ Cardinality(OpeningLines) = 20
    /\ OnePly => Cardinality(LegalMoves("black")) = 20

\* White has opened with a knight move and black has 20 legal moves.
C15_Witness ==
    /\ OnePly
    /\ last_move[3].kind = "Knight"
    /\ Cardinality(LegalMoves("black")) = 20

\* ---- C17
\* The squares that hold a piece of one colour.
ColorCells(g, color) == {s \in Cells : At(g, s).color = color}

\* Every trial of is_move_legal, for every piece and every candidate
\* destination of it, leaves the set of pieces on the board as it was.
TrialsKeepPieces ==
    \A s \in Cells : At(grid, s) # None =>
        \A to \in get_possible_moves(grid, last_move, At(grid, s)) :
            PieceIds(is_move_legal_grid(grid, s, to)) = PieceIds(grid)

\* Across a click that applies a move: the moving side keeps its number of
\* pieces, and each of its pieces but a promoted pawn stays; the other side
\* loses at most one piece, and a piece it loses stood on the destination
\* or is the pawn passed in an en passant capture.  Across any other click
\* the set of pieces is unchanged.
OnlyCaptureRemoves ==
    IF MoveApplied
    THEN LET from_pos == last_move'[1]
             to_pos == last_move'[2]
             mover == last_move'[3]
             other == Opponent(mover.color)
         IN /\ Cardinality(ColorCells(grid', mover.color))
                  = Cardinality(ColorCells(grid, mover.color))
            /\ Cardinality(ColorCells(grid, other))
                  - Cardinality(ColorCells(grid', other)) \in {0, 1}
            /\ \A s \in ColorCells(grid, other) :
                  At(grid, s).id \notin PieceIds(grid') =>
                      \/ s = to_pos
                      \/ /\ s = <<from_pos[1], to_pos[2]>>
                         /\ mover.kind = "Pawn"
                         /\ At(grid, s).kind = "Pawn"
                         /\ At(grid, to_pos) = None
            /\ \A s \in ColorCells(grid, mover.color) :
                  At(grid, s).id \notin PieceIds(grid') =>
                      /\ s = from_pos
                      /\ mover.kind = "Pawn"
                      /\ to_pos[1] = LastRow(mover.color)
                      /\ At(grid', to_pos).kind = "Queen"
                      /\ At(grid', to_pos).color = mover.color
            /\ PieceIds(grid') \ PieceIds(grid) \subseteq {At(grid', to_pos).id}
    ELSE PieceIds(grid') = PieceIds(grid)

\* C17: pieces leave the board only by capture: an applied move removes at
\* most one piece, of the side that did not move (the destination's occupant
\* or the pawn passed in en passant), the moving side's number of pieces is
\* unchanged (a promoted pawn is replaced by a queen), and is_move_legal /
\* get_all_valid_moves never change the set of pieces on the board.
C17_PiecesLeaveOnlyByCapture == [] TrialsKeepPieces /\ [][OnlyCaptureRemoves]_vars

\* A pawn has just promoted by capturing: its side still has 16 pieces, the
\* other side has lost the piece that stood on the promotion square.
C17_Witness ==
    /\ last_move # NoneT
    /\ last_move[3].kind = "Pawn"
    /\ last_move[1][2] # last_move[2][2]
    /\ At(grid, last_move[2]).kind = "Queen"
    /\ Cardinality(ColorCells(grid, Mover)) = 16
    /\ Cardinality(ColorCells(grid, Opponent(Mover))) < 16

\* ---- C18
\* last_move is None exactly while the board is the one setup_pieces made.
NoneUntilFirstMove == (last_move = NoneT) <=> (grid = setup_pieces)

\* move_piece from an empty square returns False and hands last_move back.
EmptyFromKeepsLastMove ==
    \A s \in Cells : At(grid, s) = None =>
        \A t \in Cells :
            /\ ~move_piece(grid, last_move, s, t).ok
            /\ move_piece(grid, last_move, s, t).last_move = last_move

\* Across a click that changes the board, last_move becomes the triple of
\* the selected square, the clicked destination and the piece that stood on
\* the selected square, and that piece (or the queen replacing it) stands
\* on the destination; across a click that leaves the board alone, with all
\* the legality queries it makes, last_move is unchanged.
LastMoveRecorded ==
    IF grid' # grid
    THEN /\ selected_piece # NoneT
         /\ At(grid, selected_piece) # None
         /\ \E to \in valid_moves :
               /\ last_move' =
                     <<selected_piece, to,
                       [id |-> At(grid, selected_piece).id,
                        kind |-> At(grid, selected_piece).kind,
                        color |-> At(grid, selected_piece).color]>>
               /\ At(grid', to).id \in {At(grid, selected_piece).id,
                                        PromotedId(At(grid, selected_piece).id)}
    ELSE last_move' = last_move

\* C18: last_move is None exactly until the first successful move_piece;
\* after every successful move_piece(from, to) it is (from, to, the piece
\* moved) of that move alone; a move_piece that returns False and every
\* legality query leave it unchanged.
C18_LastMoveOverwritten ==
    /\ [] NoneUntilFirstMove
    /\ [] EmptyFromKeepsLastMove
    /\ [][LastMoveRecorded]_vars

\* Black has answered white's move: last_move names black's piece, which
\* stands on the destination, and white's piece has moved before it.
C18_Witness ==
    /\ last_move # NoneT
    /\ last_move[3].color = "black"
    /\ At(grid, last_move[2]).id = last_move[3].id
    /\ At(grid, last_move[1]) = None
    /\ Cardinality(relocated) >= 2

\* ---- C19
\* The cells move_piece(from, to) may change besides from and to: the cell
\* of an en passant victim and the two cells of a castling rook.
SideCells(g, from_pos, to_pos) ==
    IF At(g, from_pos).kind = "Pawn"
    THEN {<<from_pos[1], to_pos[2]>>}
    ELSE IF At(g, from_pos).kind = "King" /\ Abs(to_pos[2] - from_pos[2]) = 2
    THEN {<<from_pos[1], CastleCorner(from_pos, to_pos)>>,
          <<from_pos[1], IF to_pos[2] > from_pos[2] THEN 5 ELSE 3>>}
    ELSE {}

\* move_piece from an empty square: False, and everything as it was.
EmptyFromRejected ==
    \A s \in Cells : At(grid, s) = None =>
        \A t \in Cells :
            move_piece(grid, last_move, s, t) =
                [ok |-> FALSE, grid |-> grid, last_move |-> last_move, error |-> "None"]

\* move_piece from an occupied square to any other square: True, the mover
\* on the destination with has_moved true, the source empty, and every cell
\* outside the move and its side cells as it was.
OccupiedFromSucceeds ==
    \A s \in Cells : At(grid, s) # None =>
        \A t \in Cells \ {s} :
            \A m \in {move_piece(grid, last_move, s, t)} :
                /\ m.error = "None"
                /\ m.ok
                /\ At(m.grid, t).id = At(grid, s).id
                /\ At(m.grid, t).has_moved
                /\ At(m.grid, s) = None
                /\ \A c \in Cells \ ({s, t} \cup SideCells(grid, s, t)) :
                      At(m.grid, c) = At(grid, c)

\* C19: move_piece(from, to) with an empty from square returns False and
\* leaves grid, positions, has_moved flags and last_move unchanged; with an
\* occupied from square it always returns True, the mover on `to`, `from`
\* empty, the mover's has_moved true, and all cells other than from, to, an
\* en passant victim's cell and a castling rook's two cells unchanged.
C19_MovePieceTotal == EmptyFromRejected /\ OccupiedFromSucceeds

\* ---- C20
\* The directions of a sliding kind.
Rays(kind) ==
    CASE kind = "Rook" -> RookDirections
      [] kind = "Bishop" -> BishopDirections
      [] kind = "Queen" -> RookDirections \cup BishopDirections
      [] OTHER -> {}

\* The row the pawns of a colour start on.
HomeRank(color) == IF color = "white" THEN BOARD_SIZE - 2 ELSE 1

\* Every generated destination is on the board and not held by the mover's
\* own colour.
MovesOnBoardNotOwn ==
    \A s \in Cells : At(grid, s) # None =>
        \A t \in get_possible_moves(grid, last_move, At(grid, s)) :
            /\ t \in Cells
            /\ At(grid, t).color # At(grid, s).color

\* A rook, bishop or queen reaches exactly the squares on an unobstructed ray
\* that its own colour does not hold: each ray includes the first opposing
\* piece, nothing behind it, and stops before the first own piece.
RaysStopAtPieces ==
    \A s \in Cells : At(grid, s).kind \in {"Rook", "Bishop", "Queen"} =>
        get_possible_moves(grid, last_move, At(grid, s)) =
            {t \in Cells : /\ OnRay(grid, s, t, Rays(At(grid, s).kind))
                           /\ At(grid, t).color # At(grid, s).color}

\* A pawn's moves on its own column: the square ahead exactly when it is on
\* the board and empty; the square two ahead exactly when, besides, the pawn
\* has not moved and that square is empty; nothing else.  A pawn that has
\* not moved stands on its home rank, so the square two ahead is on the board.
PawnAdvances ==
    \A s \in Cells : At(grid, s).kind = "Pawn" =>
        LET p == At(grid, s)
            moves == get_possible_moves(grid, last_move, p)
            one == <<s[1] + Direction(p.color), s[2]>>
            two == <<s[1] + 2 * Direction(p.color), s[2]>>
            one_ok == one \in Cells /\ At(grid, one) = None
        IN /\ ~p.has_moved => s[1] = HomeRank(p.color) /\ two \in Cells
           /\ one \in moves <=> one_ok
           /\ two \in moves <=> one_ok /\ ~p.has_moved /\ At(grid, two) = None
           /\ \A t \in moves : t[2] = s[2] => t \in {one, two}

\* C20: get_possible_moves of every piece returns only squares with row and
\* column in [0, 7] not occupied by the mover's own colour; each ray of a
\* rook, bishop or queen stops after the first opposing piece and before the
\* first own piece; a pawn's one-step advance requires an empty target, its
\* two-step advance also has_moved false and both squares empty, and the
\* two-step target is looked up only for a pawn on its home rank.
C20_GeneratorsRespectBoard ==
    MovesOnBoardNotOwn /\ RaysStopAtPieces /\ PawnAdvances

\* A queen has a capture among its destinations, and an unmoved pawn with a
\* free square ahead has its two-step advance blocked.
C20_Witness ==
    /\ \E s \in Cells :
          /\ At(grid, s).kind = "Queen"
          /\ \E t \in get_possible_moves(grid, last_move, At(grid, s)) :
                At(grid, t) # None
    /\ \E s \in Cells :
          /\ At(grid, s).kind = "Pawn"
          /\ ~At(grid, s).has_moved
          /\ At(grid, <<s[1] + Direction(At(grid, s).color), s[2]>>) = None
          /\ At(grid, <<s[1] + 2 * Direction(At(grid, s).color), s[2]>>) # None

\* ---- C16
Frames == 1 .. Len(stack)

\* Whatever runs above a frame of is_position_under_attack is a single call
\* of get_possible_moves, of a piece that is not a king, and it is the
\* innermost call: such a generator calls nothing that has a frame.
AttackDetectorCallsLeaves ==
    \A i \in Frames : stack[i].fn = "is_position_under_attack" =>
        /\ Len(stack) <= i + 1
        /\ \A j \in Frames : j > i =>
              /\ stack[j].fn = "get_possible_moves"
              /\ At(grid, stack[j].sq).kind # "King"

\* The chain get_possible_moves -> get_castling_moves ->
\* is_position_under_attack -> get_possible_moves is entered at most once:
\* no function of the chain has two frames, but get_possible_moves, whose
\* second frame is the leaf of the chain.
ChainDepthOne ==
    /\ \A i \in Frames : \A j \in Frames :
          /\ stack[i].fn = stack[j].fn
          /\ stack[i].fn \in {"get_castling_moves", "is_position_under_attack"}
          => i = j
    /\ \A i \in Frames : \A j \in Frames :
          (i < j /\ stack[i].fn = "get_possible_moves"
                 /\ stack[j].fn = "get_possible_moves")
          => /\ j = i + 3
             /\ stack[i + 1].fn = "get_castling_moves"
             /\ stack[i + 2].fn = "is_position_under_attack"
    /\ Len(stack) <= 6

\* C16: every query terminates: is_position_under_attack never invokes
\* King.get_possible_moves, the generators it invokes never call
\* is_position_under_attack, so the chain get_possible_moves ->
\* get_castling_moves -> is_position_under_attack -> get_possible_moves has
\* depth at most one, and is_in_check, is_move_legal, get_all_valid_moves,
\* is_checkmate and is_stalemate (and get_possible_moves) always return.
C16_QueriesTerminate ==
    /\ [] AttackDetectorCallsLeaves
    /\ [] ChainDepthOne
    /\ (stack # <<>>) ~> (stack = <<>>)

\* is_stalemate is asking a king for its moves, the king's castling test is
\* asking whether a square is attacked, and the attack detector is asking
\* an opposing piece for its moves.
C16_Witness ==
    /\ Len(stack) = 6
    /\ stack[1].fn = "is_stalemate"
    /\ stack[2].fn = "get_all_valid_moves"
    /\ stack[3].fn = "get_possible_moves"
    /\ At(grid, stack[3].sq).kind = "King"
    /\ stack[4].fn = "get_castling_moves"
    /\ stack[5].fn = "is_position_under_attack"
    /\ stack[6].fn = "get_possible_moves"

\* ---- C21
\* C21: is_position_under_attack(row, col, color) is true exactly when some
\* piece of the other colour could capture on (row, col), a rook, bishop or
\* queen along an unobstructed line, a knight by an L-offset, a king by
\* adjacency, a pawn on its two forward diagonals, whether the square is
\* empty or holds a piece of color; the squares a pawn advances to are not
\* attacked by it.
C21_AttackDetectorExact ==
    \A s \in Cells : \A color \in Colors :
        At(grid, s).color # Opponent(color) =>
            (is_position_under_attack(grid, last_move, s[1], s[2], color)
                <=> Attacked(grid, s, Opponent(color)))

\* ---- C22
\* The squares that hold a king of the colour.
KingCells(g, color) ==
    {s \in Cells : At(g, s).kind = "King" /\ At(g, s).color = color}

WhiteStarts == current_turn = "white" /\ last_move = NoneT

\* The piece recorded in last_move is of the colour that is not to move;
\* with no move recorded, white is to move.
LastMoverNotOnTurn ==
    IF last_move = NoneT
    THEN current_turn = "white"
    ELSE last_move[3].color = Opponent(current_turn)

\* Across a click that applies a move the turn passes to the other colour,
\* and the piece recorded, every piece that changed cell and every piece
\* that is new on the board are of the colour whose turn it was; across any
\* other click the turn stays.
TurnFlipsWithMove ==
    IF grid' # grid \/ last_move' # last_move
    THEN /\ current_turn' = Opponent(current_turn)
         /\ last_move'[3].color = current_turn
         /\ Relocated(grid, grid') \cup (PieceIds(grid') \ PieceIds(grid)) # {}
         /\ \A s \in Cells :
               At(grid', s).id \in Relocated(grid, grid') \cup
                                   (PieceIds(grid') \ PieceIds(grid))
               => At(grid', s).color = current_turn
    ELSE current_turn' = current_turn

\* C23: current_turn starts as 'white', flips exactly once per applied move
\* and at no other time; every piece a move relocates belongs to the side
\* whose turn it was, so the sides alternate and the piece recorded in
\* last_move always has the colour opposite to current_turn.
C23_TurnsAlternate ==
    /\ WhiteStarts
    /\ [] LastMoverNotOnTurn
    /\ [][TurnFlipsWithMove]_vars

\* Three moves have been made, white's last, and black is to move.
C23_Witness ==
    /\ current_turn = "black"
    /\ last_move # NoneT
    /\ last_move[3].color = "white"
    /\ Cardinality(relocated) >= 3
    /\ ~game_over

\* ---- C24
\* Across a click in a finished game nothing of the game changes.
FinishedGameUntouched ==
    game_over =>
        UNCHANGED <<grid, last_move, current_turn, selected_piece, valid_moves,
                    game_over, winner>>

\* C24: game_over is absorbing: once switch_turn has set it, every later
\* handle_click leaves grid, has_moved flags, last_move, current_turn,
\* selected_piece, valid_moves, game_over and winner unchanged.
C24_GameOverAbsorbing == [][FinishedGameUntouched]_vars

\* The game has ended and all the clicks that followed have been handled.
C24_Witness ==
    /\ game_over
    /\ events = <<>>
    /\ free = 0
    /\ selected_piece = NoneT
    /\ valid_moves = {}

\* ---- C25
\* C25: every pawn, rook and king whose has_moved is false stands on the
\* square where setup_pieces placed it, and is the piece placed there: pawns
\* on row 6 (white) or row 1 (black), rooks on their own corners, kings on
\* column 4 of their home row.
C25_UnmovedOnHomeSquare ==
    \A s \in Cells :
        (At(grid, s).kind \in {"Pawn", "Rook", "King"} /\ ~At(grid, s).has_moved)
        => /\ At(grid, s) = At(setup_pieces, s)
           /\ At(grid, s).kind = "Pawn" => s[1] = HomeRank(At(grid, s).color)
           /\ At(grid, s).kind = "Rook" =>
                 s \in {<<LastRow(Opponent(At(grid, s).color)), c>> : c \in {0, 7}}
           /\ At(grid, s).kind = "King" =>
                 s = <<LastRow(Opponent(At(grid, s).color)), 4>>

\* One rook of a colour has been moved and the other still waits on its
\* corner, and a pawn has advanced while others have not.
C25_Witness ==
    \E color \in Colors :
        /\ \E s \in Cells : \E t \in Cells :
              /\ At(grid, s).kind = "Rook" /\ At(grid, s).color = color
              /\ At(grid, t).kind = "Rook" /\ At(grid, t).color = color
              /\ At(grid, s).has_moved /\ ~At(grid, t).has_moved
        /\ \E s \in Cells : \E t \in Cells :
              /\ At(grid, s).kind = "Pawn" /\ At(grid, s).color = color
              /\ At(grid, t).kind = "Pawn" /\ At(grid, t).color = color
              /\ At(grid, s).has_moved /\ ~At(grid, t).has_moved

\* ---- C26
\* The generated destinations of the piece on s that pass is_move_legal on
\* the board as it stands.
LegalDestinations(s) ==
    {to \in get_possible_moves(grid, last_move, At(grid, s)) :
        is_move_legal(grid, last_move, s, to).legal}

\* C26: valid_moves is non-empty only if selected_piece names a square
\* holding a piece of current_turn; valid_moves is then exactly the set of
\* that piece's destinations that pass is_move_legal on the current board,
\* the set get_all_valid_moves(current_turn) reports for that square.
C26_HighlightNeverStale ==
    /\ valid_moves # {} => selected_piece # NoneT
    /\ selected_piece # NoneT =>
          /\ At(grid, selected_piece).color = current_turn
          /\ valid_moves = LegalDestinations(selected_piece)
          /\ valid_moves =
                {m[2] : m \in {n \in LegalMoves(current_turn) : n[1] = selected_piece}}

\* After some moves a piece is selected whose highlight is not empty and
\* lacks a generated move that would leave its king in check.
C26_Witness ==
    /\ last_move # NoneT
    /\ selected_piece # NoneT
    /\ valid_moves # {}
    /\ valid_moves # get_possible_moves(grid, last_move, At(grid, selected_piece))

====
